---- MODULE Spec2Model ----
(***************************************************************************)
(* The queue consumer of the review workflow                               *)
(* (cdk/lib/constructs/review-queue/consumer/handler.py): an SQS-triggered *)
(* Lambda handler that starts one Step Functions execution per queue       *)
(* message while fewer than REVIEW_MAX_CONCURRENCY executions are running. *)
(*                                                                         *)
(* The handler is modelled together with the three services it calls:     *)
(*   - the queue and its event source mapping (delivery of batches,        *)
(*     deletion of the messages a normal return does not list as failed,   *)
(*     redelivery of the others),                                          *)
(*   - the workflow engine (executions keyed by name),                     *)
(*   - the error-handler function.                                         *)
(* One step of the handler is the body of its loop for one message.        *)
(*                                                                         *)
(* The review-item processor that the workflow runs for each job           *)
(* (review-item-processor/model_config.py and agent.py) is modelled as the *)
(* calls of its functions on inputs drawn from bounded sets.               *)
(***************************************************************************)
EXTENDS Integers, Sequences, FiniteSets, TLC

VARIABLES
    now,          \* time.time() * MILLISECONDS_IN_SECOND, as an index into Clock
    queue,        \* the review queue: message id -> [state, body, receives]
    executions,   \* the workflow engine: set of [name, msg, status]
    extRunning,   \* RUNNING executions of the state machine started before Init
    errorEvents,  \* the error handler: the events it has received
    inv,          \* the handler invocations: worker -> frame of lambda_handler
    proc          \* the review-item processor: the call in progress and its result

vars == <<now, queue, executions, extRunning, errorEvents, inv, proc>>

----------------------------------------------------------------------------
(* Bounds of the model *)

NumMsgs == 3          \* messages the producer has put on the queue
MaxReceives == 2      \* deliveries of one message (the queue's maxReceiveCount)
MaxExternal == 2      \* executions already running when the model starts
NumWorkers == 2       \* handler invocations that may overlap (SpecConc)
NumConcMsgs == 2      \* messages on the queue of the overlapping invocations
NumLiveMsgs == 2      \* messages on the queue that is redelivered without end

MsgIds == 1..NumMsgs
Workers == 1..NumWorkers

----------------------------------------------------------------------------
(* Program constants: handler.py lines 12-35, with no environment override *)

DEFAULT_REVIEW_MAX_CONCURRENCY == 2
DEFAULT_MAX_QUEUE_WAIT_MS == 86400000
DEFAULT_VISIBILITY_TIMEOUT_PROCESSING == 1200
DEFAULT_VISIBILITY_TIMEOUT_RETRY == 15

REVIEW_MAX_CONCURRENCY == DEFAULT_REVIEW_MAX_CONCURRENCY
MAX_QUEUE_WAIT_MS == DEFAULT_MAX_QUEUE_WAIT_MS
VISIBILITY_TIMEOUT_PROCESSING == DEFAULT_VISIBILITY_TIMEOUT_PROCESSING
VISIBILITY_TIMEOUT_RETRY == DEFAULT_VISIBILITY_TIMEOUT_RETRY

Max(a, b) == IF a >= b THEN a ELSE b
Min(a, b) == IF a <= b THEN a ELSE b

----------------------------------------------------------------------------
(* Messages.  A message id and a receipt handle are non-empty strings in    *)
(* an SQS event; 0 stands for the empty string the handler substitutes for  *)
(* a missing key.  A body is the JSON text the producer sent, described by  *)
(* what json.loads makes of it.                                            *)

NoValue == 0

\* The instants at which the clock is read: one millisecond before the messages
\* reach the maximum age, and the instant they reach it.
SentAt == 1000
Clock == << SentAt + MAX_QUEUE_WAIT_MS - 1, SentAt + MAX_QUEUE_WAIT_MS >>

\* Bodies a producer can put on the queue for message m:
\*   malformed : not JSON                         (json.loads raises JSONDecodeError)
\*   array     : JSON, but not an object           (body.get raises AttributeError)
\*   object    : {reviewJobId, userId?}            the single-job shape
\*   object    : {jobs: [{reviewJobId}]}           the multi-job shape of the older producer
Bodies(m) ==
    << [shape |-> "object",    reviewJobId |-> m,       userId |-> NoValue, jobs |-> << >>],
       [shape |-> "object",    reviewJobId |-> m,       userId |-> 100 + m, jobs |-> << >>],
       [shape |-> "object",    reviewJobId |-> NoValue, userId |-> NoValue, jobs |-> << m >>],
       [shape |-> "malformed", reviewJobId |-> NoValue, userId |-> NoValue, jobs |-> << >>],
       [shape |-> "array",     reviewJobId |-> NoValue, userId |-> NoValue, jobs |-> << >>] >>

BodyKinds == 1..Len(Bodies(1))

NoBody == [shape |-> "none", reviewJobId |-> NoValue, userId |-> NoValue, jobs |-> << >>]

ReceiptHandle(m, k) == 10 * m + k

\* The record of the SQS event for the next delivery of message m.
Record(m, body) ==
    [ messageId     |-> m,
      receiptHandle |-> ReceiptHandle(m, queue[m].receives + 1),
      body          |-> body,
      SentTimestamp |-> SentAt ]

----------------------------------------------------------------------------
(* Calls the handler makes on the services.  msg names the message whose    *)
(* turn of the loop made the call.                                         *)

Call(op, msg, key, arg, reply) ==
    [op |-> op, msg |-> msg, key |-> key, arg |-> arg, reply |-> reply]

\* Replies of StartExecution and of Invoke that the handler tells apart.
StartReplies == {"ok", "ExecutionAlreadyExists", "ClientError", "Exception"}
InvokeReplies == {"ok", "ClientError"}
ListReplies == {"ok", "ClientError"}

----------------------------------------------------------------------------
(* handler.py, function by function.  A function that calls a service       *)
(* returns the calls it made; a reply parameter is the service's answer.    *)

\* get_queue_wait_ms: int(time.time() * 1000 - float(SentTimestamp)), 0 without one.
get_queue_wait_ms(message, t) ==
    IF message.SentTimestamp = NoValue THEN 0 ELSE t - message.SentTimestamp

\* Mutant: the query sees one execution at most.
list_executions_sees_one(running, maxResults) == Min(running, 1)

\* list_executions(statusFilter="RUNNING", maxResults=n): at most n of the running.
list_executions(running, maxResults) == Min(running, maxResults)

\* Mutant: a failed query counts as no running execution.
get_running_executions_count_fail_open(running, listReply) ==
    IF listReply = "ok"
        THEN list_executions(running, REVIEW_MAX_CONCURRENCY + 1)
        ELSE 0

\* get_running_executions_count: the ceiling when the query raises ClientError.
get_running_executions_count(running, listReply) ==
    IF listReply = "ok"
        THEN list_executions(running, REVIEW_MAX_CONCURRENCY + 1)
        ELSE REVIEW_MAX_CONCURRENCY

\* Mutant: one slot too many.
available_slots_off_by_one(running_count) ==
    Max(REVIEW_MAX_CONCURRENCY + 1 - running_count, 0)

\* lambda_handler line 49.
available_slots(running_count) == Max(REVIEW_MAX_CONCURRENCY - running_count, 0)

\* change_message_visibility: no call without a receipt handle; a ClientError of
\* the call is logged and swallowed, so the caller sees no reply.
change_message_visibility(msg, receipt_handle, timeout_seconds) ==
    IF receipt_handle = NoValue
        THEN << >>
        ELSE << Call("change_message_visibility", msg, receipt_handle, timeout_seconds, "ok") >>

\* Mutant: the message is hidden for the processing window.
reschedule_message_for_processing(message, timeout_seconds) ==
    IF message.receiptHandle = NoValue
        THEN << >>
        ELSE change_message_visibility(message.messageId, message.receiptHandle,
                                       VISIBILITY_TIMEOUT_PROCESSING)

\* reschedule_message.
reschedule_message(message, timeout_seconds) ==
    IF message.receiptHandle = NoValue
        THEN << >>
        ELSE change_message_visibility(message.messageId, message.receiptHandle, timeout_seconds)

\* Mutant: the execution is named after the delivery, not after the message.
execution_name_of_receipt(message) == message.receiptHandle

\* The name start_stepfunction_execution gives the execution of a message.
execution_name(message) == message.messageId

\* start_stepfunction_execution: start_execution(name=message_id, input=message_body).
start_stepfunction_execution(message, startReply) ==
    << Call("start_execution", message.messageId, execution_name(message), message.body, startReply) >>

\* Mutant: the payload names another error.
error_event_wrong_error(review_job_id, user_id) ==
    [action |-> "handleReviewError", reviewJobId |-> review_job_id, error |-> "UNKNOWN_ERROR"]

\* The payload handle_queue_timeout builds (lines 183-189).
error_event(review_job_id, user_id) ==
    IF user_id # NoValue
        THEN [action |-> "handleReviewError", reviewJobId |-> review_job_id,
              error |-> "QUEUE_TIMEOUT_ERROR", userId |-> user_id]
        ELSE [action |-> "handleReviewError", reviewJobId |-> review_job_id,
              error |-> "QUEUE_TIMEOUT_ERROR"]

\* Mutant: a ClientError of the invoke is swallowed.
handle_queue_timeout_swallows_error(message_id, review_job_id, user_id, invokeReply) ==
    IF review_job_id = NoValue
        THEN [raised |-> FALSE, calls |-> << >>]
        ELSE [raised |-> FALSE,
              calls  |-> << Call("invoke", message_id, NoValue,
                                 error_event(review_job_id, user_id), invokeReply) >>]

\* handle_queue_timeout: nothing without a job id; otherwise one invoke, whose
\* ClientError is not caught.
handle_queue_timeout(message_id, review_job_id, user_id, invokeReply) ==
    IF review_job_id = NoValue
        THEN [raised |-> FALSE, calls |-> << >>]
        ELSE [raised |-> invokeReply # "ok",
              calls  |-> << Call("invoke", message_id, NoValue,
                                 error_event(review_job_id, user_id), invokeReply) >>]

Returned(ret, calls) == [ret |-> ret, raised |-> FALSE, calls |-> calls]
Raised(calls) == [ret |-> FALSE, raised |-> TRUE, calls |-> calls]

\* Mutant: a failed launch leaves the processing window in place.
launch_keeps_processing_window(message, startReply) ==
    LET start == start_stepfunction_execution(message, startReply)
    IN  IF startReply \in {"ok", "ExecutionAlreadyExists"}
            THEN Returned(TRUE, start)
            ELSE Returned(FALSE, start)

\* Mutant: ExecutionAlreadyExists is handled like any other launch error.
launch_retries_duplicate(message, startReply) ==
    LET start == start_stepfunction_execution(message, startReply)
    IN  IF startReply = "ok"
            THEN Returned(TRUE, start)
            ELSE Returned(FALSE, start \o change_message_visibility(
                     message.messageId, message.receiptHandle, VISIBILITY_TIMEOUT_RETRY))

\* The launch of process_message, lines 105-122.
launch(message, startReply) ==
    LET start == start_stepfunction_execution(message, startReply)
    IN  IF startReply \in {"ok", "ExecutionAlreadyExists"}
            THEN Returned(TRUE, start)
            ELSE Returned(FALSE, start \o change_message_visibility(
                     message.messageId, message.receiptHandle, VISIBILITY_TIMEOUT_RETRY))

\* Mutant: a body that does not decode is left for a retry.
on_decode_error_retries == Returned(FALSE, << >>)

\* process_message, lines 85-87: json.JSONDecodeError is logged, and the
\* message counts as processed.
on_decode_error == Returned(TRUE, << >>)

\* Mutant: a message is stale only after the maximum age.
queue_wait_exceeded_strictly(queue_wait_ms) == queue_wait_ms > MAX_QUEUE_WAIT_MS

\* process_message, line 95.
queue_wait_exceeded(queue_wait_ms) == queue_wait_ms >= MAX_QUEUE_WAIT_MS

\* Mutant: the launch comes before the extension of the visibility timeout.
extend_then_launch_reversed(extend, l) == Returned(l.ret, l.calls \o extend)

\* process_message, lines 99-122: the calls of the extension, then those of
\* the launch, whose result is the result of process_message.
extend_then_launch(extend, l) == Returned(l.ret, extend \o l.calls)

\* process_message, lines 78-122.  body.get on a decoded body that is not an
\* object raises AttributeError, which nothing catches.
process_message(message, t, startReply, invokeReply) ==
    LET message_id == message.messageId
        receipt_handle == message.receiptHandle
        body == message.body
    IN  IF body.shape = "malformed" THEN on_decode_error
        ELSE IF body.shape # "object" THEN Raised(<< >>)
        ELSE IF queue_wait_exceeded(get_queue_wait_ms(message, t))
            THEN LET h == handle_queue_timeout(message_id, body.reviewJobId,
                                               body.userId, invokeReply)
                 IN  IF h.raised THEN Raised(h.calls) ELSE Returned(TRUE, h.calls)
        ELSE LET extend == change_message_visibility(message_id, receipt_handle,
                                                     VISIBILITY_TIMEOUT_PROCESSING)
             IN  IF message_id = NoValue
                     THEN Returned(TRUE, extend)
                     ELSE LET l == launch(message, startReply)
                          IN  extend_then_launch(extend, l)

\* Mutant: a successful process_message does not take a slot.
loop_turn_keeps_slot(message, slots, t, startReply, invokeReply) ==
    LET failure == << message.messageId >>
    IN  IF slots <= 0
            THEN [slots |-> slots, failures |-> failure, raised |-> FALSE,
                  calls |-> reschedule_message(message, VISIBILITY_TIMEOUT_RETRY)]
            ELSE LET p == process_message(message, t, startReply, invokeReply)
                 IN  [slots |-> slots, raised |-> p.raised, calls |-> p.calls,
                      failures |-> IF p.raised \/ p.ret THEN << >> ELSE failure]

\* Mutant: a failed process_message is not reported as a batch item failure.
loop_turn_drops_failure(message, slots, t, startReply, invokeReply) ==
    LET failure == << message.messageId >>
    IN  IF slots <= 0
            THEN [slots |-> slots, failures |-> failure, raised |-> FALSE,
                  calls |-> reschedule_message(message, VISIBILITY_TIMEOUT_RETRY)]
            ELSE LET p == process_message(message, t, startReply, invokeReply)
                 IN  [slots |-> IF ~p.raised /\ p.ret THEN slots - 1 ELSE slots,
                      raised |-> p.raised, calls |-> p.calls, failures |-> << >>]

\* Mutant: the loop does not look at the slots.
loop_turn_ignores_slots(message, slots, t, startReply, invokeReply) ==
    LET p == process_message(message, t, startReply, invokeReply)
        failure == IF message.messageId # NoValue THEN << message.messageId >> ELSE << >>
    IN  [slots |-> IF p.ret /\ ~p.raised THEN slots - 1 ELSE slots,
         failures |-> IF p.ret \/ p.raised THEN << >> ELSE failure,
         raised |-> p.raised,
         calls |-> p.calls]

\* One turn of the loop of lambda_handler, lines 58-70, for `message` with
\* `slots` available: the slots left, the failures appended, the calls made.
loop_turn(message, slots, t, startReply, invokeReply) ==
    LET message_id == message.messageId
        failure == IF message_id # NoValue THEN << message_id >> ELSE << >>
    IN  IF slots <= 0
            THEN [slots |-> slots, failures |-> failure, raised |-> FALSE,
                  calls |-> reschedule_message(message, VISIBILITY_TIMEOUT_RETRY)]
            ELSE LET p == process_message(message, t, startReply, invokeReply)
                 IN  IF p.raised
                         THEN [slots |-> slots, failures |-> << >>, raised |-> TRUE,
                               calls |-> p.calls]
                     ELSE IF p.ret
                         THEN [slots |-> slots - 1, failures |-> << >>, raised |-> FALSE,
                               calls |-> p.calls]
                         ELSE [slots |-> slots, failures |-> failure, raised |-> FALSE,
                               calls |-> p.calls]

----------------------------------------------------------------------------
(* The services *)

Running == extRunning + Cardinality({e \in executions : e.status = "RUNNING"})

\* StartExecution: a name that was used before is rejected, whatever the state
\* of its execution; any call may fail for another reason.
engine_replies(name) ==
    IF \E e \in executions : e.name = name
        THEN {"ExecutionAlreadyExists", "ClientError", "Exception"}
        ELSE {"ok", "ClientError", "Exception"}

Calls(calls, op) == {k \in 1..Len(calls) : calls[k].op = op}

\* The executions the engine creates for the accepted start_execution calls.
started(calls) ==
    { [name |-> calls[k].key, msg |-> calls[k].msg, status |-> "RUNNING"] :
        k \in {j \in Calls(calls, "start_execution") : calls[j].reply = "ok"} }

\* The events the error handler receives from the successful invoke calls.
delivered_events(calls) ==
    {calls[k].arg : k \in {j \in Calls(calls, "invoke") : calls[j].reply = "ok"}}

\* The elements of S in increasing order.
RECURSIVE Ascending(_)
Ascending(S) ==
    IF S = {} THEN << >>
    ELSE LET least == CHOOSE x \in S : \A y \in S : x <= y
         IN  << least >> \o Ascending(S \ {least})

Range(s) == {s[k] : k \in 1..Len(s)}

----------------------------------------------------------------------------
(* The state machine *)

Deleted == [state |-> "deleted", body |-> NoBody, receives |-> 0]

\* The frame of lambda_handler: its locals, the calls it has made, and for each
\* finished turn of the loop the queue wait of its message and the slots at hand.
Idle == [ pc |-> "idle", Records |-> << >>, i |-> 1, query |-> "ok",
          running_count |-> 0, available_slots |-> 0,
          batch_failures |-> << >>, calls |-> << >>, turns |-> << >> ]

\* The review-item processor is not running.
NoCall == [op |-> "none", pc |-> "none"]

\* The bodies the messages of S can carry: the body delivered before, or for
\* a first delivery any body of Bodies.
Sent(S) ==
    { [m \in S |-> Bodies(m)[kind[m]]] :
        kind \in { k \in [S -> BodyKinds] :
                     \A m \in S : queue[m].body # NoBody => Bodies(m)[k[m]] = queue[m].body } }

Deliverable == {m \in MsgIds : queue[m].state = "visible" /\ queue[m].receives < MaxReceives}

\* The event source mapping delivers the batch S to a free worker, and
\* lambda_handler runs up to its loop (lines 42-56).  The body of a message
\* is whatever its producer sent; the model learns it at the first delivery.
Invoke(w, S) ==
    /\ inv[w].pc = "idle"
    /\ S # {}
    /\ S \subseteq Deliverable
    /\ \E sent \in Sent(S), listReply \in ListReplies :
         LET order == Ascending(S)
             messages == [k \in 1..Cardinality(S) |-> Record(order[k], sent[order[k]])]
             running_count == get_running_executions_count(Running, listReply)
         IN  /\ inv' = [inv EXCEPT ![w] =
                        [ pc |-> "loop", Records |-> messages, i |-> 1,
                          query |-> listReply,
                          running_count |-> running_count,
                          available_slots |-> available_slots(running_count),
                          batch_failures |-> << >>, calls |-> << >>, turns |-> << >> ]]
             /\ queue' = [m \in MsgIds |->
                             IF m \in S
                                 THEN [state |-> "inflight", body |-> sent[m],
                                       receives |-> queue[m].receives + 1]
                                 ELSE queue[m]]
    /\ UNCHANGED <<now, executions, extRunning, errorEvents, proc>>

\* One turn of the loop (lines 58-70), and the return (lines 72-75) after the
\* last one.
Step(w) ==
    /\ inv[w].pc = "loop"
    /\ LET f == inv[w]
           message == f.Records[f.i]
       IN  \E startReply \in engine_replies(execution_name(message)),
              invokeReply \in InvokeReplies :
             LET r == loop_turn(message, f.available_slots, Clock[now],
                                startReply, invokeReply)
             IN  /\ inv' = [inv EXCEPT ![w] =
                       [f EXCEPT !.pc = IF r.raised THEN "raised"
                                        ELSE IF f.i = Len(f.Records) THEN "returned"
                                        ELSE "loop",
                                 !.i = f.i + 1,
                                 !.available_slots = r.slots,
                                 !.batch_failures = @ \o r.failures,
                                 !.calls = @ \o r.calls,
                                 !.turns = Append(@,
                                     [wait  |-> get_queue_wait_ms(message, Clock[now]),
                                      slots |-> f.available_slots])]]
                 /\ executions' = executions \cup started(r.calls)
                 /\ errorEvents' = errorEvents \cup delivered_events(r.calls)
    /\ UNCHANGED <<now, queue, extRunning, proc>>

\* The event source mapping takes the outcome of the invocation: after a
\* normal return it deletes the messages that batchItemFailures does not list
\* and leaves the others on the queue, where they become visible again when
\* their visibility timeout elapses; after an exception it leaves them all.
\* A message that was received MaxReceives times goes to the dead-letter queue.
Settle(w) ==
    /\ inv[w].pc \in {"returned", "raised"}
    /\ LET f == inv[w]
           batch == {f.Records[k].messageId : k \in 1..Len(f.Records)}
           failed == IF f.pc = "raised" THEN batch ELSE Range(f.batch_failures)
       IN  queue' = [m \in MsgIds |->
                        IF m \notin batch \/ queue[m].state = "deleted" THEN queue[m]
                        ELSE IF m \in failed /\ queue[m].receives < MaxReceives
                            THEN [queue[m] EXCEPT !.state = "visible"]
                        ELSE Deleted]
    /\ inv' = [inv EXCEPT ![w] = Idle]
    /\ UNCHANGED <<now, executions, extRunning, errorEvents, proc>>

\* The visibility timeout of a message elapses while an invocation holds it.
VisibilityExpires(m) ==
    /\ queue[m].state = "inflight"
    /\ queue' = [queue EXCEPT ![m].state = "visible"]
    /\ UNCHANGED <<now, executions, extRunning, errorEvents, inv, proc>>

\* A running execution of the state machine ends.
ExecutionEnds ==
    /\ \/ /\ extRunning > 0
          /\ extRunning' = extRunning - 1
          /\ UNCHANGED executions
       \/ /\ \E e \in executions :
                /\ e.status = "RUNNING"
                /\ executions' = (executions \ {e}) \cup {[e EXCEPT !.status = "SUCCEEDED"]}
          /\ UNCHANGED extRunning
    /\ UNCHANGED <<now, queue, errorEvents, inv, proc>>

\* Time passes.
Tick ==
    /\ now < Len(Clock)
    /\ now' = now + 1
    /\ UNCHANGED <<queue, executions, extRunning, errorEvents, inv, proc>>

InitCommon ==
    /\ now = 1
    /\ executions = {}
    /\ extRunning \in 0..MaxExternal
    /\ errorEvents = {}
    /\ inv = [w \in Workers |-> Idle]
    /\ proc = NoCall

\* The k deliverable messages with the least ids (all of them when fewer).
Oldest(k) == {m \in Deliverable : Cardinality({x \in Deliverable : x <= m}) <= k}

\* NumMsgs messages on the queue, and one invocation at a time, which receives
\* the oldest messages first.  The handler reads the engine when it is invoked
\* and when it starts an execution, so executions that end during an
\* invocation are the ones that end before or after it.
Init ==
    /\ InitCommon
    /\ queue = [m \in MsgIds |-> [state |-> "visible", body |-> NoBody, receives |-> 0]]

Next ==
    \/ \E k \in MsgIds : Invoke(1, Oldest(k))
    \/ Step(1)
    \/ Settle(1)
    \/ (inv[1].pc = "idle" /\ ExecutionEnds)
    \/ Tick

Spec == Init /\ [][Next]_vars

\* Overlapping invocations: the workers receive any messages, in-flight
\* messages may become visible again before their invocation ends, and
\* executions end at any time.  The queue holds NumConcMsgs messages with
\* well-formed single-job bodies, none of which reaches the maximum age.
InitConc ==
    /\ InitCommon
    /\ queue = [m \in MsgIds |->
                   IF m <= NumConcMsgs
                       THEN [state |-> "visible", body |-> Bodies(m)[1], receives |-> 0]
                       ELSE Deleted]

NextConc ==
    \/ \E w \in Workers, S \in SUBSET Deliverable : Invoke(w, S)
    \/ \E w \in Workers : Step(w)
    \/ \E w \in Workers : Settle(w)
    \/ \E m \in MsgIds : VisibilityExpires(m)
    \/ ExecutionEnds

SpecConc == InitConc /\ [][NextConc]_vars

----------------------------------------------------------------------------
(* What a frame says about the turn of its k-th message *)

\* The turn ran to its end: it was taken, and no exception left it.
Completed(f, k) == k <= Len(f.turns) /\ ~(f.pc = "raised" /\ k = Len(f.turns))

\* The calls of the turn, in order.
CallsOf(f, k) == SelectSeq(f.calls, LAMBDA c : c.msg = f.Records[k].messageId)

Listed(f, k) == f.Records[k].messageId \in Range(f.batch_failures)

IsVisibility(c, message, timeout) ==
    /\ c.op = "change_message_visibility"
    /\ c.key = message.receiptHandle
    /\ c.arg = timeout

StartReply(f, k) ==
    LET starts == SelectSeq(CallsOf(f, k), LAMBDA c : c.op = "start_execution")
    IN  IF starts = << >> THEN "none" ELSE starts[1].reply

\* Stale at its turn: the queue wait reached the maximum age.
Stale(f, k) == f.turns[k].wait >= MAX_QUEUE_WAIT_MS

\* Deferred for lack of slots: the one call of the turn sets the retry window,
\* and the message is listed.
DeferredForSlots(f, k) ==
    /\ Completed(f, k)
    /\ Listed(f, k)
    /\ Len(CallsOf(f, k)) = 1
    /\ IsVisibility(CallsOf(f, k)[1], f.Records[k], VISIBILITY_TIMEOUT_RETRY)

\* The launch failed: start_execution answered with an error other than
\* ExecutionAlreadyExists.
LaunchFailed(f, k) ==
    Completed(f, k) /\ StartReply(f, k) \notin {"none", "ok", "ExecutionAlreadyExists"}

Launched(f, k) == Completed(f, k) /\ StartReply(f, k) = "ok"

Duplicate(f, k) == Completed(f, k) /\ StartReply(f, k) = "ExecutionAlreadyExists"

\* Reaped: stale at its turn, taken through process_message, and acknowledged
\* without a launch.
Reaped(f, k) ==
    /\ Completed(f, k)
    /\ ~Listed(f, k)
    /\ f.turns[k].slots > 0
    /\ f.Records[k].body.shape = "object"
    /\ Stale(f, k)
    /\ StartReply(f, k) = "none"

\* Poison: the body does not decode, and the message is acknowledged untouched.
Poison(f, k) ==
    /\ Completed(f, k)
    /\ ~Listed(f, k)
    /\ f.turns[k].slots > 0
    /\ f.Records[k].body.shape = "malformed"
    /\ CallsOf(f, k) = << >>

\* Deferred: listed as a batch item failure, the retry window being the last
\* visibility timeout asked for.
Deferred(f, k) ==
    /\ Completed(f, k)
    /\ Listed(f, k)
    /\ CallsOf(f, k) # << >>
    /\ IsVisibility(CallsOf(f, k)[Len(CallsOf(f, k))], f.Records[k], VISIBILITY_TIMEOUT_RETRY)

Outcomes(f, k) ==
    {o \in {"reaped", "poison", "launched", "duplicate", "deferred"} :
        \/ o = "reaped" /\ Reaped(f, k)
        \/ o = "poison" /\ Poison(f, k)
        \/ o = "launched" /\ Launched(f, k) /\ ~Listed(f, k)
        \/ o = "duplicate" /\ Duplicate(f, k) /\ ~Listed(f, k)
        \/ o = "deferred" /\ Deferred(f, k)}

----------------------------------------------------------------------------
(* Claims *)

\* C1: when the running count lambda_handler observed is at least the
\* ceiling, every message of the batch is deferred (its visibility timeout is
\* set to the retry window and it is listed in batchItemFailures), no
\* start_execution call is made, and the handler does not raise.
C1_NoCapacityDefersAll ==
    \A w \in Workers :
        LET f == inv[w]
        IN  (f.pc # "idle" /\ f.running_count >= REVIEW_MAX_CONCURRENCY) =>
                /\ f.pc # "raised"
                /\ Calls(f.calls, "start_execution") = {}
                /\ \A k \in 1..Len(f.turns) : DeferredForSlots(f, k)

C1_Witness ==
    \E w \in Workers :
        /\ inv[w].pc = "returned"
        /\ inv[w].query = "ok"
        /\ inv[w].running_count >= REVIEW_MAX_CONCURRENCY
        /\ Len(inv[w].Records) >= 2

\* The slots lambda_handler computes once for the batch.
SlotsOfBatch(f) ==
    IF REVIEW_MAX_CONCURRENCY - f.running_count > 0
        THEN REVIEW_MAX_CONCURRENCY - f.running_count
        ELSE 0

\* The turns in which process_message returned success.
Admitted(f) == {k \in 1..Len(f.turns) : Completed(f, k) /\ ~Listed(f, k)}

\* C2 as stated: the messages for which a launch is attempted are never more
\* than the slots computed at the start of the batch.
C2_LaunchAttemptsWithinSlots ==
    \A w \in Workers :
        inv[w].pc # "idle" =>
            Cardinality(Calls(inv[w].calls, "start_execution")) <= SlotsOfBatch(inv[w])

\* C2 amended: the messages for which process_message returns success are never
\* more than the slots computed at the start of the batch, each of them takes
\* one slot, and the executions started are no more than those slots; in a
\* batch of 3 with ceiling 2 and running count 1 whose first message is
\* launched, the other two are deferred.
C2_AdmittedWithinSlots ==
    \A w \in Workers :
        LET f == inv[w]
        IN  f.pc # "idle" =>
                /\ Cardinality(Admitted(f)) <= SlotsOfBatch(f)
                /\ f.available_slots = SlotsOfBatch(f) - Cardinality(Admitted(f))
                /\ Cardinality({k \in 1..Len(f.turns) : Launched(f, k)}) <= SlotsOfBatch(f)
                /\ ( /\ f.pc = "returned"
                     /\ Len(f.Records) = 3
                     /\ REVIEW_MAX_CONCURRENCY = 2
                     /\ f.running_count = 1
                     /\ Launched(f, 1) )
                   => (DeferredForSlots(f, 2) /\ DeferredForSlots(f, 3))

C2_Witness ==
    \E w \in Workers :
        /\ inv[w].pc = "returned"
        /\ Len(inv[w].Records) = 3
        /\ inv[w].running_count = 1
        /\ Launched(inv[w], 1)
        /\ DeferredForSlots(inv[w], 2)
        /\ DeferredForSlots(inv[w], 3)
        /\ inv[w].batch_failures = << inv[w].Records[2].messageId, inv[w].Records[3].messageId >>

\* C3 as stated: when an invocation ends, each message it was given has
\* exactly one of the outcomes reaped, poison-acknowledged, launched,
\* duplicate-acknowledged, deferred.
C3_ExactlyOneOutcome ==
    \A w \in Workers :
        inv[w].pc \in {"returned", "raised"} =>
            \A k \in 1..Len(inv[w].Records) : Cardinality(Outcomes(inv[w], k)) = 1

\* C4: the list lambda_handler builds and returns holds the id of a message
\* exactly when the message had no slot at its turn or its launch failed with
\* an error other than ExecutionAlreadyExists, and holds it once; a message
\* that was launched, was a duplicate, was reaped or was poison is not in it.
C4_FailuresListed ==
    \A w \in Workers :
        LET f == inv[w]
        IN  f.pc \in {"loop", "returned"} =>
                /\ \A k \in 1..Len(f.turns) :
                      /\ Listed(f, k) <=> (f.turns[k].slots <= 0 \/ LaunchFailed(f, k))
                      /\ (Launched(f, k) \/ Duplicate(f, k) \/ Reaped(f, k) \/ Poison(f, k))
                            => ~Listed(f, k)
                /\ Cardinality(Range(f.batch_failures)) = Len(f.batch_failures)
                /\ Range(f.batch_failures) \subseteq
                      {f.Records[k].messageId : k \in 1..Len(f.turns)}

C4_Witness ==
    \E w \in Workers :
        LET f == inv[w]
        IN  /\ f.pc = "returned"
            /\ \E k \in 1..Len(f.turns) : f.turns[k].slots <= 0 /\ Listed(f, k)
            /\ \E k \in 1..Len(f.turns) : LaunchFailed(f, k) /\ Listed(f, k)
            /\ \E k \in 1..Len(f.turns) : Launched(f, k) /\ ~Listed(f, k)

ExecutionsOf(m) == {e \in executions : e.msg = m}

\* C5: in every interleaving of redeliveries and overlapping invocations, the
\* engine holds at most one execution per message, named by the message id,
\* and a message an invocation launched has exactly one.
C5_OneExecutionPerMessage ==
    /\ \A m \in MsgIds : Cardinality(ExecutionsOf(m)) <= 1
    /\ \A e \in executions : e.name = e.msg
    /\ \A w \in Workers :
          \A k \in 1..Len(inv[w].turns) :
              Launched(inv[w], k) =>
                  Cardinality(ExecutionsOf(inv[w].Records[k].messageId)) = 1

\* Two overlapping invocations hold the same message: one launched it, the
\* other was answered ExecutionAlreadyExists.
C5_Witness ==
    \E w1, w2 \in Workers :
        /\ w1 # w2
        /\ \E k1 \in 1..Len(inv[w1].turns), k2 \in 1..Len(inv[w2].turns) :
              /\ inv[w1].Records[k1].messageId = inv[w2].Records[k2].messageId
              /\ Launched(inv[w1], k1)
              /\ Duplicate(inv[w2], k2)

\* C6: a message whose launch is answered ExecutionAlreadyExists is handled as
\* a success: it takes a slot, it is not listed in batchItemFailures, and the
\* only visibility timeout asked for it is the processing window.
C6_DuplicateIsSuccess ==
    \A w \in Workers :
        LET f == inv[w]
        IN  \A k \in 1..Len(f.turns) :
                Duplicate(f, k) =>
                    /\ ~Listed(f, k)
                    /\ Len(CallsOf(f, k)) = 2
                    /\ IsVisibility(CallsOf(f, k)[1], f.Records[k], VISIBILITY_TIMEOUT_PROCESSING)
                    /\ CallsOf(f, k)[2].op = "start_execution"
                    /\ k \in Admitted(f)

\* A redelivered message, launched by an earlier invocation, is answered
\* ExecutionAlreadyExists in an invocation that returns.
C6_Witness ==
    \E w \in Workers :
        /\ inv[w].pc = "returned"
        /\ \E k \in 1..Len(inv[w].turns) :
              /\ Duplicate(inv[w], k)
              /\ queue[inv[w].Records[k].messageId].receives = 2
              /\ ExecutionsOf(inv[w].Records[k].messageId) # {}

\* C7: when the running-count query fails, the running count is taken to be
\* the ceiling, no slot is available, every message of the batch is deferred,
\* no start_execution call is made, and the handler does not raise.
C7_QueryFailureFailsClosed ==
    \A w \in Workers :
        LET f == inv[w]
        IN  (f.pc # "idle" /\ f.query = "ClientError") =>
                /\ f.running_count = REVIEW_MAX_CONCURRENCY
                /\ f.available_slots = 0
                /\ f.pc # "raised"
                /\ Calls(f.calls, "start_execution") = {}
                /\ \A k \in 1..Len(f.turns) : DeferredForSlots(f, k)

\* The query fails while nothing is running, and the handler returns.
C7_Witness ==
    \E w \in Workers :
        /\ inv[w].pc = "returned"
        /\ inv[w].query = "ClientError"
        /\ Running = 0
        /\ Len(inv[w].Records) >= 2
        /\ Len(inv[w].batch_failures) = Len(inv[w].Records)

\* The message of the turn is stale, has a slot, and its body is an object.
ReapCase(f, k) ==
    /\ k <= Len(f.turns)
    /\ Stale(f, k)
    /\ f.turns[k].slots > 0
    /\ f.Records[k].body.shape = "object"

\* The call is the invoke of the error handler for the job of the message.
IsTimeoutEvent(c, message) ==
    /\ c.op = "invoke"
    /\ c.arg.action = "handleReviewError"
    /\ c.arg.reviewJobId = message.body.reviewJobId
    /\ c.arg.error = "QUEUE_TIMEOUT_ERROR"
    /\ ("userId" \in DOMAIN c.arg) = (message.body.userId # NoValue)
    /\ ("userId" \in DOMAIN c.arg) => c.arg.userId = message.body.userId

C9_StaleNeverDeferred ==
    \A w \in Workers :
        \A k \in 1..Len(inv[w].turns) :
            Stale(inv[w], k) => ~DeferredForSlots(inv[w], k)

\* C9 amended: a stale message is reaped when a slot is available at its
\* turn: process_message then takes the reaper path (no launch, no visibility
\* change, not listed); without a slot the message is deferred like any other,
\* its age unread.
C9_StaleReapedWhenSlot ==
    \A w \in Workers :
        LET f == inv[w]
        IN  \A k \in 1..Len(f.turns) :
                (Stale(f, k) /\ f.Records[k].body.shape = "object") =>
                    /\ f.turns[k].slots > 0 =>
                          /\ StartReply(f, k) = "none"
                          /\ ~Listed(f, k)
                          /\ \A j \in 1..Len(CallsOf(f, k)) : CallsOf(f, k)[j].op = "invoke"
                    /\ f.turns[k].slots <= 0 => DeferredForSlots(f, k)

\* A stale message with a job id was deferred for lack of slots.
C9_Witness ==
    \E w \in Workers :
        /\ inv[w].pc = "returned"
        /\ \E k \in 1..Len(inv[w].turns) :
              /\ Stale(inv[w], k)
              /\ inv[w].Records[k].body.reviewJobId # NoValue
              /\ DeferredForSlots(inv[w], k)

\* C10: a message whose body does not decode, given to process_message, is
\* acknowledged without processing: no call is made for it (no launch, no
\* error-handler invoke, no visibility change), the turn does not raise, and
\* the message is not listed in batchItemFailures.
C10_PoisonAcknowledged ==
    \A w \in Workers :
        LET f == inv[w]
        IN  \A k \in 1..Len(f.turns) :
                (f.Records[k].body.shape = "malformed" /\ f.turns[k].slots > 0) =>
                    /\ Completed(f, k)
                    /\ CallsOf(f, k) = << >>
                    /\ ~Listed(f, k)
                    /\ Poison(f, k)

C10_Witness ==
    \E w \in Workers :
        /\ inv[w].pc = "returned"
        /\ \E k \in 1..Len(inv[w].turns) :
              /\ inv[w].Records[k].body.shape = "malformed"
              /\ inv[w].turns[k].slots > 0
              /\ inv[w].batch_failures = << >>

\* The slots at hand after the turn of the k-th message.
SlotsAfter(f, k) == IF k < Len(f.turns) THEN f.turns[k + 1].slots ELSE f.available_slots

\* C11: when the launch of a message fails with an error other than
\* ExecutionAlreadyExists, the last visibility timeout the handler sets on the
\* message is the retry window, set after the processing window and after the
\* launch; the message is listed in batchItemFailures and takes no slot.
C11_LaunchFailureRetries ==
    \A w \in Workers :
        LET f == inv[w]
        IN  \A k \in 1..Len(f.turns) :
                LaunchFailed(f, k) =>
                    /\ Len(CallsOf(f, k)) = 3
                    /\ IsVisibility(CallsOf(f, k)[1], f.Records[k], VISIBILITY_TIMEOUT_PROCESSING)
                    /\ CallsOf(f, k)[2].op = "start_execution"
                    /\ IsVisibility(CallsOf(f, k)[3], f.Records[k], VISIBILITY_TIMEOUT_RETRY)
                    /\ Listed(f, k)
                    /\ SlotsAfter(f, k) = f.turns[k].slots
                    /\ k \notin Admitted(f)

\* A launch failed, and the next message of the batch was launched with the
\* slot the failed one left.
C11_Witness ==
    \E w \in Workers :
        /\ inv[w].pc = "returned"
        /\ Len(inv[w].turns) >= 2
        /\ inv[w].turns[1].slots = 1
        /\ LaunchFailed(inv[w], 1)
        /\ Launched(inv[w], 2)

\* C12 as stated: a fault local to one message never aborts the batch;
\* lambda_handler never raises.
C12_BatchNeverAborted ==
    \A w \in Workers : inv[w].pc # "raised"

\* C19: in the turn of a message, every start_execution call comes after a
\* call that extends the visibility timeout of the message to the processing
\* window; no launch is attempted without that call before it.
C19_ExtendBeforeLaunch ==
    \A w \in Workers :
        LET f == inv[w]
        IN  \A k \in 1..Len(f.turns) :
                \A j \in 1..Len(CallsOf(f, k)) :
                    CallsOf(f, k)[j].op = "start_execution" =>
                        /\ j = 2
                        /\ IsVisibility(CallsOf(f, k)[1], f.Records[k], VISIBILITY_TIMEOUT_PROCESSING)
                        /\ ~Stale(f, k)
                        /\ f.Records[k].body.shape = "object"

\* A message that is neither poison nor stale was launched after the
\* extension of its visibility timeout.
C19_Witness ==
    \E w \in Workers :
        \E k \in 1..Len(inv[w].turns) :
            /\ Launched(inv[w], k)
            /\ ~Stale(inv[w], k)
            /\ Len(CallsOf(inv[w], k)) = 2
            /\ CallsOf(inv[w], k)[1].op = "change_message_visibility"

\* C20 as stated: the slots decrease by one exactly in the turn of a message
\* that is launched or is a duplicate; a reaped, poison, launch-failed or
\* deferred message leaves them unchanged.
C20_SlotsOnlyForAdmitted ==
    \A w \in Workers :
        LET f == inv[w]
        IN  \A k \in 1..Len(f.turns) :
                Completed(f, k) =>
                    SlotsAfter(f, k) =
                        IF Launched(f, k) \/ Duplicate(f, k)
                            THEN f.turns[k].slots - 1
                            ELSE f.turns[k].slots

----------------------------------------------------------------------------
(* Redelivery without end *)

\* The queue has no redrive to a dead-letter queue here: after an invocation
\* the messages that failed are received again, however often that happened.
SettleLive(w) ==
    /\ inv[w].pc \in {"returned", "raised"}
    /\ LET f == inv[w]
           batch == {f.Records[k].messageId : k \in 1..Len(f.Records)}
           failed == IF f.pc = "raised" THEN batch ELSE Range(f.batch_failures)
       IN  queue' = [m \in MsgIds |->
                        IF m \notin batch \/ queue[m].state = "deleted" THEN queue[m]
                        ELSE IF m \in failed
                            THEN [queue[m] EXCEPT !.state = "visible", !.receives = 0]
                        ELSE Deleted]
    /\ inv' = [inv EXCEPT ![w] = Idle]
    /\ UNCHANGED <<now, executions, extRunning, errorEvents, proc>>

InitLive ==
    /\ InitCommon
    /\ queue = [m \in MsgIds |->
                   IF m <= NumLiveMsgs
                       THEN [state |-> "visible", body |-> NoBody, receives |-> 0]
                       ELSE Deleted]

NextLive ==
    \/ \E S \in SUBSET Deliverable : Invoke(1, S)
    \/ Step(1)
    \/ SettleLive(1)
    \/ (inv[1].pc = "idle" /\ ExecutionEnds)
    \/ Tick

\* Message m is delivered first in its batch to an invocation whose query of
\* the engine succeeds and finds a free slot.
DeliveredFirst(m) ==
    /\ \E S \in SUBSET Deliverable : Invoke(1, S)
    /\ inv'[1].Records[1].messageId = m
    /\ inv'[1].query = "ok"
    /\ inv'[1].available_slots > 0

\* The turn of message m is taken with a slot at hand, and the services
\* answer its calls without a fault.
ServedTurn(m) ==
    /\ Step(1)
    /\ inv[1].Records[inv[1].i].messageId = m
    /\ inv[1].available_slots > 0
    /\ \A j \in (Len(inv[1].calls) + 1)..Len(inv'[1].calls) :
          inv'[1].calls[j].reply \in {"ok", "ExecutionAlreadyExists"}

\* The handler runs on and its outcome is taken; running executions end;
\* every message is again and again delivered at the head of a batch when
\* there is capacity, and the services do not fail it for ever.
FairnessLive ==
    /\ WF_vars(Step(1))
    /\ WF_vars(SettleLive(1))
    /\ SF_vars(inv[1].pc = "idle" /\ ExecutionEnds)
    /\ \A m \in 1..NumLiveMsgs : SF_vars(DeliveredFirst(m))
    /\ \A m \in 1..NumLiveMsgs : SF_vars(ServedTurn(m))

SpecLive == InitLive /\ [][NextLive]_vars /\ FairnessLive

\* The message is on the queue with a body that decodes and carries a job id.
CarriesJob(m) ==
    /\ queue[m].state # "deleted"
    /\ queue[m].body.shape = "object"
    /\ queue[m].body.reviewJobId # NoValue

\* An execution was started for the message, or the error handler received
\* QUEUE_TIMEOUT_ERROR for its job.
Accounted(m, job) ==
    \/ ExecutionsOf(m) # {}
    \/ \E ev \in errorEvents : ev.reviewJobId = job /\ ev.error = "QUEUE_TIMEOUT_ERROR"

----------------------------------------------------------------------------
(* review-item-processor/model_config.py.  A model id is the sequence of    *)
(* the labels that its dots separate: "us.amazon.nova-premier-v1:0" is      *)
(* <<"us", "amazon", "nova-premier-v1:0">>, and "" is <<"">>.               *)

MaxPrefixLabels == 2

Entry(model_id, document_block, citation, caching) ==
    [ model_id |-> model_id,
      supports_document_block |-> document_block,
      supports_citation |-> citation,
      supports_caching |-> caching ]

\* _MODEL_REGISTRY: the record of each key (model id and capability flags).
MODEL_REGISTRY ==
    { Entry(<<"us", "anthropic", "claude-3-7-sonnet-20250219-v1:0">>, TRUE, TRUE, TRUE),
      Entry(<<"anthropic", "claude-3-7-sonnet-20250219-v1:0">>, TRUE, TRUE, TRUE),
      Entry(<<"global", "anthropic", "claude-sonnet-4-20250514-v1:0">>, TRUE, TRUE, TRUE),
      Entry(<<"us", "anthropic", "claude-sonnet-4-20250514-v1:0">>, TRUE, TRUE, TRUE),
      Entry(<<"eu", "anthropic", "claude-sonnet-4-20250514-v1:0">>, TRUE, TRUE, TRUE),
      Entry(<<"apac", "anthropic", "claude-sonnet-4-20250514-v1:0">>, TRUE, TRUE, TRUE),
      Entry(<<"anthropic", "claude-sonnet-4-20250514-v1:0">>, TRUE, TRUE, TRUE),
      Entry(<<"global", "anthropic", "claude-sonnet-4-5-20250929-v1:0">>, TRUE, TRUE, TRUE),
      Entry(<<"us", "anthropic", "claude-sonnet-4-5-20250929-v1:0">>, TRUE, TRUE, TRUE),
      Entry(<<"eu", "anthropic", "claude-sonnet-4-5-20250929-v1:0">>, TRUE, TRUE, TRUE),
      Entry(<<"jp", "anthropic", "claude-sonnet-4-5-20250929-v1:0">>, TRUE, TRUE, TRUE),
      Entry(<<"anthropic", "claude-sonnet-4-5-20250929-v1:0">>, TRUE, TRUE, TRUE),
      Entry(<<"global", "anthropic", "claude-opus-4-5-20251101-v1:0">>, TRUE, TRUE, TRUE),
      Entry(<<"anthropic", "claude-opus-4-20250514-v1:0">>, TRUE, TRUE, TRUE),
      Entry(<<"anthropic", "claude-3-5-sonnet-20241022-v2:0">>, TRUE, TRUE, TRUE),
      Entry(<<"anthropic", "claude-3-5-sonnet-20240620-v1:0">>, TRUE, FALSE, TRUE),
      Entry(<<"anthropic", "claude-3-5-haiku-20241022-v1:0">>, TRUE, FALSE, TRUE),
      Entry(<<"anthropic", "claude-3-opus-20240229-v1:0">>, TRUE, FALSE, TRUE),
      Entry(<<"anthropic", "claude-3-sonnet-20240229-v1:0">>, TRUE, FALSE, TRUE),
      Entry(<<"anthropic", "claude-3-haiku-20240307-v1:0">>, TRUE, FALSE, TRUE),
      Entry(<<"us", "amazon", "nova-premier-v1:0">>, TRUE, TRUE, FALSE),
      Entry(<<"amazon", "nova-premier-v1:0">>, TRUE, TRUE, FALSE),
      Entry(<<"us", "amazon", "nova-2-omni-v1:0">>, TRUE, FALSE, FALSE),
      Entry(<<"amazon", "nova-2-omni-v1:0">>, TRUE, FALSE, FALSE) }

DEFAULT_CONFIG == Entry(<<"unknown">>, FALSE, FALSE, FALSE)

\* model_id in _MODEL_REGISTRY, and _MODEL_REGISTRY[model_id].
Registered(model_id) == \E c \in MODEL_REGISTRY : c.model_id = model_id
RegistryRecord(model_id) == CHOOSE c \in MODEL_REGISTRY : c.model_id = model_id

\* Mutant: the region prefix is stripped before the registry is consulted.
create_strips_first(model_id) ==
    IF Len(model_id) >= 2 /\ Registered(Tail(model_id))
        THEN RegistryRecord(Tail(model_id))
    ELSE IF Registered(model_id)
        THEN RegistryRecord(model_id)
    ELSE DEFAULT_CONFIG

\* ModelConfig.create.  "." in model_id: the id has two labels or more;
\* model_id.split(".", 1)[-1]: the id without its first label.
create(model_id) ==
    IF Registered(model_id)
        THEN RegistryRecord(model_id)
    ELSE IF Len(model_id) >= 2 /\ Registered(Tail(model_id))
        THEN RegistryRecord(Tail(model_id))
    ELSE DEFAULT_CONFIG

\* The ids given to the processor: a registered or an unknown id, behind up to
\* MaxPrefixLabels labels.
PrefixLabels == {"us", "eu", "global", "xx"}
Prefixes == UNION { [1..n -> PrefixLabels] : n \in 0..MaxPrefixLabels }
UnknownIds == { <<"totally-unknown-model-id">>, <<"">>, <<"anthropic", "claude-x">> }
ModelIds ==
    { p \o m : p \in Prefixes, m \in {c.model_id : c \in MODEL_REGISTRY} \cup UnknownIds }

HandlerAtRest ==
    /\ now = 1
    /\ queue = [m \in MsgIds |-> Deleted]
    /\ executions = {}
    /\ extRunning = 0
    /\ errorEvents = {}
    /\ inv = [w \in Workers |-> Idle]

InitConfig ==
    /\ HandlerAtRest
    /\ proc \in { [op |-> "create", pc |-> "called", model_id |-> id, config |-> DEFAULT_CONFIG] :
                    id \in ModelIds }

\* ModelConfig.create(model_id) returns.
Create ==
    /\ proc.op = "create"
    /\ proc.pc = "called"
    /\ proc' = [proc EXCEPT !.pc = "returned", !.config = create(proc.model_id)]
    /\ UNCHANGED <<now, queue, executions, extRunning, errorEvents, inv>>

NextConfig == Create

SpecConfig == InitConfig /\ [][NextConfig]_vars

Flags(c) == << c.supports_document_block, c.supports_citation, c.supports_caching >>

\* C14: ModelConfig.create returns for every id: the record registered under
\* the id itself when there is one; otherwise the record registered under the
\* id without its first label when there is one; otherwise the default record,
\* whose three flags are false.  So for a registered id m and a region label p
\* with p.m unregistered, create(p.m) has the flags of create(m).
C14_CreateResolutionOrder ==
    (proc.op = "create" /\ proc.pc = "returned") =>
        LET id == proc.model_id
            c == proc.config
        IN  /\ Registered(id) => c \in MODEL_REGISTRY /\ c.model_id = id
            /\ (~Registered(id) /\ Len(id) >= 2 /\ Registered(Tail(id))) =>
                   c \in MODEL_REGISTRY /\ c.model_id = Tail(id)
            /\ (~Registered(id) /\ ~(Len(id) >= 2 /\ Registered(Tail(id)))) =>
                   Flags(c) = << FALSE, FALSE, FALSE >>
            /\ (~Registered(id) /\ Len(id) >= 2 /\ Registered(Tail(id))) =>
                   Flags(c) = Flags(create(Tail(id)))

\* create("xx.us.amazon.nova-premier-v1:0"), whose prefixed form is not
\* registered, returned the record of "us.amazon.nova-premier-v1:0".
C14_Witness ==
    /\ proc.op = "create"
    /\ proc.pc = "returned"
    /\ proc.model_id = <<"xx", "us", "amazon", "nova-premier-v1:0">>
    /\ proc.config.model_id = <<"us", "amazon", "nova-premier-v1:0">>
    /\ Flags(proc.config) = << TRUE, TRUE, FALSE >>

----------------------------------------------------------------------------
(* review-item-processor/agent.py: the choice of the processing strategy *)

\* CITATION_SUPPORTED_MODELS, lines 214-220.
CITATION_SUPPORTED_MODELS ==
    { <<"anthropic", "claude-sonnet-4-20250514-v1:0">>,
      <<"anthropic", "claude-sonnet-4-5-20250929-v1:0">>,
      <<"anthropic", "claude-opus-4-20250514-v1:0">>,
      <<"anthropic", "claude-3-7-sonnet-20250219-v1:0">>,
      <<"anthropic", "claude-3-5-sonnet-20241022-v2:0">> }

\* supports_citations: the id without its first label, when it has a dot, is
\* looked up; the id itself is looked up only when it has no dot.
supports_citations(model_id) ==
    LET base_model == IF Len(model_id) >= 2 THEN Tail(model_id) ELSE model_id
    IN  base_model \in CITATION_SUPPORTED_MODELS

\* _should_use_citations, lines 934-941; enable_citations is ENABLE_CITATIONS.
should_use_citations(enable_citations, model_id, has_images) ==
    IF has_images THEN FALSE
    ELSE enable_citations /\ supports_citations(model_id)

\* What a strategy is: how the agent gets at the files, the tools it is given
\* for that, and whether the documents of the request carry citations.
Strategy(access, tools, content, reviewType) ==
    [access |-> access, tools |-> tools, content |-> content, reviewType |-> reviewType]

\* _process_review_with_citations and _run_strands_agent_with_citations: no
\* file tool; each file is a document block of the request with its bytes and
\* citations enabled.
process_review_with_citations == Strategy("embedded", {}, "citation", "PDF")

\* _process_review_legacy and _run_strands_agent_legacy: the files are named in
\* the prompt and read by the agent through its tools.
process_review_legacy(has_images) ==
    IF has_images
        THEN Strategy("tool", {"file_read", "image_reader"}, "plain", "IMAGE")
        ELSE Strategy("tool", {"file_read"}, "plain", "PDF")

\* process_review, lines 1081-1119: the dispatch.
dispatch(enable_citations, selected_model_id, has_images) ==
    LET use_citations == should_use_citations(enable_citations, selected_model_id, has_images)
    IN  IF use_citations
            THEN process_review_with_citations
            ELSE process_review_legacy(has_images)

InitStrategy ==
    /\ HandlerAtRest
    /\ proc \in { [op |-> "dispatch", pc |-> "called", has_images |-> img,
                   ENABLE_CITATIONS |-> flag, selected_model_id |-> id,
                   strategy |-> Strategy("none", {}, "none", "none")] :
                    img \in BOOLEAN, flag \in BOOLEAN, id \in ModelIds }

\* process_review chooses the strategy for the files and the selected model.
Dispatch ==
    /\ proc.op = "dispatch"
    /\ proc.pc = "called"
    /\ proc' = [proc EXCEPT !.pc = "returned",
                            !.strategy = dispatch(proc.ENABLE_CITATIONS,
                                                  proc.selected_model_id, proc.has_images)]
    /\ UNCHANGED <<now, queue, executions, extRunning, errorEvents, inv>>

NextStrategy == Dispatch

SpecStrategy == InitStrategy /\ [][NextStrategy]_vars

\* C15 as stated: with images the strategy is tool-based with file-read and
\* image-read and plain content; without images the file bytes are embedded
\* exactly when the citation flag is on and the capability record of the model
\* supports the document block, and then the content is citation-tagged
\* exactly when the record supports citations; otherwise the strategy is
\* tool-based with file-read and plain content.
C15_DispatchTable ==
    (proc.op = "dispatch" /\ proc.pc = "returned") =>
        LET capability == create(proc.selected_model_id)
            st == proc.strategy
        IN  IF proc.has_images
                THEN st.access = "tool" /\ st.tools = {"file_read", "image_reader"}
                     /\ st.content = "plain"
            ELSE IF proc.ENABLE_CITATIONS /\ capability.supports_document_block
                THEN st.access = "embedded"
                     /\ (st.content = "citation") = capability.supports_citation
            ELSE st.access = "tool" /\ st.tools = {"file_read"} /\ st.content = "plain"

----------------------------------------------------------------------------
(* review-item-processor/agent.py: the text of the agent and the JSON in it. *)
(* A text is a sequence of tokens: the two markers, the characters that     *)
(* JSON and the regular expressions of _extract_json_from_message tell      *)
(* apart, and words.  A JSON value is kept as the tokens of its compact     *)
(* serialization, a dict as the function from its keys to such values.      *)

Q == "\""
JSON_START == "<<JSON_START>>"
JSON_END == "<<JSON_END>>"

\* Literals of JSON that are one token, and those that Python takes for false.
Literals == {"0", "1", "2", "0.5", "0.9", "[]", "[0]", "[\"c\"]", "null"}
FalsyLiterals == {"0", "[]", "null"}

Str(atoms) == << Q >> \o atoms \o << Q >>

EmptyDict == [k \in {} |-> << >>]

\* The keys of a result record, in the order of serialization.
KeyOrder ==
    << "result", "confidence", "explanation", "shortExplanation", "verificationDetails",
       "sourcesDetails", "extractedText", "pageNumber", "usedImageIndexes", "boundingBoxes",
       "reviewType", "reviewMeta", "inputTokens", "outputTokens", "totalCost", "citations" >>

\* json.dumps(d, separators=(",", ":")) for a dict d.
RECURSIVE Members(_, _, _)
Members(d, k, first) ==
    IF k > Len(KeyOrder) THEN << >>
    ELSE IF KeyOrder[k] \notin DOMAIN d THEN Members(d, k + 1, first)
    ELSE (IF first THEN << >> ELSE << "," >>)
         \o Str(<< KeyOrder[k] >>) \o << ":" >> \o d[KeyOrder[k]]
         \o Members(d, k + 1, FALSE)

Serialize(d) == << "{" >> \o Members(d, 1, TRUE) \o << "}" >>

\* The first position from i on that holds no whitespace.
RECURSIVE skip(_, _)
skip(toks, i) == IF i <= Len(toks) /\ toks[i] = " " THEN skip(toks, i + 1) ELSE i

Least(S) == CHOOSE x \in S : \A y \in S : x <= y
Greatest(S) == CHOOSE x \in S : \A y \in S : x >= y

ParseError == [ok |-> FALSE, next |-> 0, kind |-> "none", toks |-> << >>, dict |-> EmptyDict]
Parsed(next, kind, toks, dict) ==
    [ok |-> TRUE, next |-> next, kind |-> kind, toks |-> toks, dict |-> dict]

\* d[k] = v of Python.
Put(d, k, v) == [x \in DOMAIN d \cup {k} |-> IF x = k THEN v ELSE d[x]]

\* The JSON decoder, from position i0 of toks: a string, a literal or an
\* object whose members are "key": value separated by commas.
RECURSIVE parse_value(_, _), parse_members(_, _, _, _)

\* After a member, at position e: a comma and more members, or the end.
member_end(toks, e, acc) ==
    IF e > Len(toks) THEN ParseError
    ELSE IF toks[e] = "," THEN parse_members(toks, e + 1, acc, FALSE)
    ELSE IF toks[e] = "}" THEN Parsed(e + 1, "object", Serialize(acc), acc)
    ELSE ParseError

member_value(toks, key, val, acc) ==
    IF ~val.ok THEN ParseError
    ELSE member_end(toks, skip(toks, val.next), Put(acc, key.toks[2], val.toks))

member_colon(toks, key, c, acc) ==
    IF c > Len(toks) \/ toks[c] # ":" THEN ParseError
    ELSE member_value(toks, key, parse_value(toks, c + 1), acc)

\* A key is a string of one token.
member_key(toks, key, acc) ==
    IF ~key.ok \/ key.kind # "string" \/ Len(key.toks) # 3 THEN ParseError
    ELSE member_colon(toks, key, skip(toks, key.next), acc)

members_at(toks, i, acc, first) ==
    IF i > Len(toks) THEN ParseError
    ELSE IF first /\ toks[i] = "}" THEN Parsed(i + 1, "object", Serialize(acc), acc)
    ELSE member_key(toks, parse_value(toks, i), acc)

parse_members(toks, i0, acc, first) == members_at(toks, skip(toks, i0), acc, first)

\* A string ends at the nearest quote.
string_at(toks, i, ends) ==
    IF ends = {} THEN ParseError
    ELSE Parsed(Least(ends) + 1, "string", SubSeq(toks, i, Least(ends)), EmptyDict)

value_at(toks, i) ==
    IF i > Len(toks) THEN ParseError
    ELSE IF toks[i] = Q THEN string_at(toks, i, {j \in (i + 1)..Len(toks) : toks[j] = Q})
    ELSE IF toks[i] \in Literals THEN Parsed(i + 1, "literal", << toks[i] >>, EmptyDict)
    ELSE IF toks[i] = "{" THEN parse_members(toks, i + 1, EmptyDict, TRUE)
    ELSE ParseError

parse_value(toks, i0) == value_at(toks, skip(toks, i0))

\* json.loads: one value, and nothing but whitespace after it.
whole(toks, r) == IF r.ok /\ skip(toks, r.next) > Len(toks) THEN r ELSE ParseError

json_loads(toks) == whole(toks, parse_value(toks, 1))

\* bool(x) of a decoded value.
Truthy(r) ==
    /\ r.ok
    /\ \/ r.kind = "object" /\ DOMAIN r.dict # {}
       \/ r.kind = "string" /\ Len(r.toks) > 2
       \/ r.kind = "literal" /\ r.toks[1] \notin FalsyLiterals

\* str.strip().
between(toks, inked) ==
    IF inked = {} THEN << >> ELSE SubSeq(toks, Least(inked), Greatest(inked))

strip(toks) == between(toks, {i \in 1..Len(toks) : toks[i] # " "})

\* re.search(r"<<JSON_START>>(.*?)<<JSON_END>>", combined, re.DOTALL): from
\* the first start marker to the nearest end marker after it.
NoMatch == [found |-> FALSE, group |-> << >>]

marker_match(combined) ==
    LET starts == {i \in 1..Len(combined) : combined[i] = JSON_START}
        ends == {j \in 1..Len(combined) : combined[j] = JSON_END /\ j > Least(starts)}
    IN  IF starts = {} \/ ends = {} THEN NoMatch
        ELSE [found |-> TRUE, group |-> SubSeq(combined, Least(starts) + 1, Least(ends) - 1)]

\* re.search(r"\{.*\}", ...) taken for non-greedy: up to the nearest brace.
brace_match_nearest(combined) ==
    LET opens == {i \in 1..Len(combined) : combined[i] = "{"}
        closes == {j \in 1..Len(combined) : combined[j] = "}" /\ j > Least(opens)}
    IN  IF opens = {} \/ closes = {} THEN NoMatch
        ELSE [found |-> TRUE, group |-> SubSeq(combined, Least(opens), Least(closes))]

\* re.search(r"\{.*\}", combined, re.DOTALL): from the first opening brace to
\* the last closing brace after it.
brace_match(combined) ==
    LET opens == {i \in 1..Len(combined) : combined[i] = "{"}
        closes == {j \in 1..Len(combined) : combined[j] = "}" /\ j > Least(opens)}
    IN  IF opens = {} \/ closes = {} THEN NoMatch
        ELSE [found |-> TRUE, group |-> SubSeq(combined, Least(opens), Greatest(closes))]

\* A message of the agent: the text of its text blocks, joined, and the source
\* texts of the citations of its citation blocks.
Message(text, citations) == [text |-> text, citations |-> citations]

\* json.loads of the span of a match, None without a match.
loads_match(m) == IF m.found THEN json_loads(strip(m.group)) ELSE ParseError

\* Mutant: the braces are tried before the markers.
first_parsed_braces_first(marked, braced, combined) ==
    [parsed |-> IF braced.ok THEN braced ELSE marked, combined |-> combined]

\* The payload between the markers when it parses, else the one between the
\* braces when it parses, else None (ParseError stands for None).
first_parsed(marked, braced, combined) ==
    [parsed |-> IF marked.ok THEN marked ELSE braced, combined |-> combined]

extract_from_text(combined) ==
    first_parsed(loads_match(marker_match(combined)), loads_match(brace_match(combined)),
                 combined)

\* _extract_json_from_message: the decoded payload and the stripped text.
extract_json_from_message(message) == extract_from_text(strip(message.text))

NO_CITATIONS == "No specific text citations were found in the document."

\* _extract_citations_text.
extract_citations_text(message) ==
    IF message.citations # << >> THEN Str(message.citations) ELSE Str(<< NO_CITATIONS >>)

\* What a Python call gives: a value, or an exception.
Value(kind, toks, dict) == [raised |-> FALSE, kind |-> kind, toks |-> toks, dict |-> dict]
Dict(d) == Value("object", Serialize(d), d)
TypeError == [raised |-> TRUE, kind |-> "none", toks |-> << >>, dict |-> EmptyDict]

\* The fallback of _agent_message_to_dict with another verdict.
fallback_passes(combined_text) ==
    [result |-> Str(<< "pass" >>), confidence |-> << "0.5" >>,
     explanation |-> Str(combined_text),
     shortExplanation |-> Str(<< "Failed to analyze JSON parse" >>)]

\* The fallback record of _agent_message_to_dict.
fallback(combined_text) ==
    [result |-> Str(<< "fail" >>), confidence |-> << "0.5" >>,
     explanation |-> Str(combined_text),
     shortExplanation |-> Str(<< "Failed to analyze JSON parse" >>)]

\* _agent_message_to_dict, after the extraction x.  A payload that is true for
\* Python is the result, whatever its type; storing a key into one that is no
\* dict raises TypeError.
to_dict(x, message, use_citations) ==
    IF Truthy(x.parsed)
        THEN IF use_citations
             THEN IF x.parsed.kind # "object" THEN TypeError
                  ELSE Dict(Put(x.parsed.dict, "extractedText", extract_citations_text(message)))
             ELSE Value(x.parsed.kind, x.parsed.toks, x.parsed.dict)
        ELSE IF use_citations
             THEN Dict(Put(fallback(x.combined), "extractedText", extract_citations_text(message)))
             ELSE Dict(fallback(x.combined))

agent_message_to_dict(message, use_citations) ==
    to_dict(extract_json_from_message(message), message, use_citations)

\* The usage that meta_tracker.get_review_meta reports for the run.
ReviewMeta == [reviewMeta |-> << "meta" >>, inputTokens |-> << "2" >>,
               outputTokens |-> << "1" >>, totalCost |-> << "0.5" >>]

\* result["reviewMeta"] = review_meta and the three counts taken from it.
with_usage(result) ==
    [k \in DOMAIN result \cup DOMAIN ReviewMeta |->
        IF k \in DOMAIN ReviewMeta THEN ReviewMeta[k] ELSE result[k]]

\* result["verificationDetails"] = {"sourcesDetails": ...}, the tool history
\* of the hook over whatever the agent said of it, and the usage.
with_history(result, tool_history) ==
    IF result.raised \/ result.kind # "object" THEN TypeError
    ELSE Dict(with_usage(Put(result.dict, "verificationDetails",
                             Serialize([sourcesDetails |-> tool_history]))))

\* _run_strands_agent_legacy and _run_strands_agent_with_citations, from the
\* answer of the agent on.
run_strands_agent(message, tool_history, use_citations) ==
    with_history(agent_message_to_dict(message, use_citations), tool_history)

\* The defaults of process_review for the fields of every record, of an
\* IMAGE record and of a PDF record.
CommonDefaults ==
    [result |-> Str(<< "fail" >>), confidence |-> << "0.5" >>,
     explanation |-> Str(<< "No explanation provided" >>),
     shortExplanation |-> Str(<< "No short explanation provided" >>),
     verificationDetails |-> Serialize([sourcesDetails |-> << "[]" >>])]

ImageDefaults == [usedImageIndexes |-> << "[]" >>, boundingBoxes |-> << "[]" >>]

PdfDefaults == [extractedText |-> Str(<< >>), pageNumber |-> << "1" >>]

Defaults(has_images) ==
    LET typed == IF has_images THEN ImageDefaults ELSE PdfDefaults
    IN  [k \in DOMAIN CommonDefaults \cup DOMAIN typed |->
            IF k \in DOMAIN typed THEN typed[k] ELSE CommonDefaults[k]]

\* The record with every missing field at its default.
filled(result, defaults) ==
    [k \in DOMAIN result \cup DOMAIN defaults |->
        IF k \in DOMAIN result THEN result[k] ELSE defaults[k]]

\* A verificationDetails without sourcesDetails gets the empty list, and one
\* that is no dict raises TypeError.
with_sources(record, details) ==
    IF details.kind # "object" THEN TypeError
    ELSE IF "sourcesDetails" \in DOMAIN details.dict THEN Dict(record)
    ELSE Dict(Put(record, "verificationDetails",
                  Serialize(Put(details.dict, "sourcesDetails", << "[]" >>))))

\* The completion with the defaults put over what the record holds.
ensure_required_fields_overwrites(result, has_images) ==
    Dict([k \in DOMAIN result \cup DOMAIN Defaults(has_images) |->
             IF k \in DOMAIN Defaults(has_images) THEN Defaults(has_images)[k] ELSE result[k]])

\* process_review, lines 1121-1156: every missing field gets its default.
ensure_required_fields(result, has_images) ==
    with_sources(filled(result, Defaults(has_images)),
                 json_loads(filled(result, CommonDefaults).verificationDetails))

DEFAULT_DOCUMENT_MODEL_ID == <<"global", "anthropic", "claude-sonnet-4-20250514-v1:0">>

\* What a call of process_review gives: the record, or the exception.  base
\* is the record as the strategy returned it, before the completion.
Review(base, completed) ==
    [raised |-> completed.raised, base |-> base, result |-> completed.dict]

\* _process_review_with_citations and _process_review_legacy tag the record
\* of the run with the review type; process_review completes its fields.
tag_and_complete(run, reviewType, has_images) ==
    IF run.raised THEN Review(EmptyDict, TypeError)
    ELSE Review(Put(run.dict, "reviewType", Str(<< reviewType >>)),
                ensure_required_fields(Put(run.dict, "reviewType", Str(<< reviewType >>)),
                                       has_images))

\* process_review, from the answer of the agent on.
process_review(enable_citations, has_images, message, tool_history) ==
    tag_and_complete(
        run_strands_agent(message, tool_history,
                          should_use_citations(enable_citations, DEFAULT_DOCUMENT_MODEL_ID,
                                               has_images)),
        dispatch(enable_citations, DEFAULT_DOCUMENT_MODEL_ID, has_images).reviewType,
        has_images)

\* The fields the prompts ask the agent for, each with a value that is not
\* its default.
Supplied ==
    [result |-> Str(<< "pass" >>), confidence |-> << "0.9" >>,
     explanation |-> Str(<< "w" >>), shortExplanation |-> Str(<< "w" >>),
     verificationDetails |-> Serialize([sourcesDetails |-> << "[0]" >>]),
     extractedText |-> Str(<< "w" >>), pageNumber |-> << "2" >>,
     usedImageIndexes |-> << "[0]" >>, boundingBoxes |-> << "[0]" >>]

\* The records an agent may answer with: any of the fields may be missing.
AgentRecords == { [k \in S |-> Supplied[k]] : S \in SUBSET DOMAIN Supplied }

\* The records with one field, and the one with all of them.
PlainRecords == { r \in AgentRecords : Cardinality(DOMAIN r) \in {1, Cardinality(DOMAIN Supplied)} }

\* The ways an agent lays out its payload: alone, or between the markers as
\* the prompt asks.
Layouts(payload) == { payload, << JSON_START >> \o payload \o << JSON_END >> }

\* And in prose with or without the markers, after a marked span that is no
\* JSON, and before prose that holds a closing brace.
ProseLayouts(payload) ==
    { << " ", "w", " ", JSON_START, " " >> \o payload \o << " ", JSON_END, " ", "w", " " >>,
      << "w", " " >> \o payload \o << " ", "w" >>,
      << JSON_START, "w", JSON_END, " " >> \o payload,
      payload \o << " ", "w", "}" >> }

\* Answers without a record: prose, blanks, broken JSON, and payloads that
\* are JSON but no object.
OtherTexts ==
    { << >>, << " " >>, << "w" >>, << " ", "w", " ", "w", " " >>,
      << "{" >>, << "}", "w", "{" >>, << "{", "w", "}" >>, << "{", "}" >>,
      << JSON_START, JSON_END >>, << JSON_START, "w" >>,
      << JSON_START, "[]", JSON_END >>, << JSON_START, "null", JSON_END, "w" >>,
      << JSON_START, "[0]", JSON_END >>, << JSON_START, "1", JSON_END >>,
      << "w", JSON_START >> \o Str(<< "w" >>) \o << JSON_END >>,
      << "{" >> \o Str(<< "result" >>) \o << ":" >> \o Str(<< "pass" >>) \o << "," , "}" >> }

\* Answers whose record reports its citations itself, as a list of quoted
\* strings in a field citations.
SelfCitedTexts ==
    { << JSON_START >>
          \o Serialize([result |-> Str(<< "pass" >>), citations |-> << "[\"c\"]" >>])
          \o << JSON_END >>,
      Serialize([result |-> Str(<< "pass" >>), extractedText |-> Str(<< "w" >>),
                 citations |-> << "[\"c\"]" >>]) }

Texts ==
    UNION { Layouts(Serialize(r)) : r \in AgentRecords }
        \cup UNION { ProseLayouts(Serialize(r)) : r \in PlainRecords }
        \cup OtherTexts
        \cup SelfCitedTexts

CitationTexts == { << >>, << "c" >> }

ToolHistories == { << "[]" >>, << "[0]" >> }

InitReview ==
    /\ HandlerAtRest
    /\ proc \in { [op |-> "process_review", pc |-> "called", ENABLE_CITATIONS |-> flag,
                   has_images |-> img, message |-> Message(text, cited),
                   tool_history |-> history, converted |-> TypeError,
                   review |-> Review(EmptyDict, TypeError)] :
                    flag \in BOOLEAN, img \in BOOLEAN, text \in Texts,
                    cited \in CitationTexts, history \in ToolHistories }

UseCitations == should_use_citations(proc.ENABLE_CITATIONS, DEFAULT_DOCUMENT_MODEL_ID,
                                     proc.has_images)

\* process_review returns or raises; converted is what _agent_message_to_dict
\* gave on the way.
ProcessReview ==
    /\ proc.op = "process_review"
    /\ proc.pc = "called"
    /\ LET review == process_review(proc.ENABLE_CITATIONS, proc.has_images, proc.message,
                                    proc.tool_history)
       IN  proc' = [proc EXCEPT !.pc = IF review.raised THEN "raised" ELSE "returned",
                                !.converted = agent_message_to_dict(proc.message, UseCitations),
                                !.review = review]
    /\ UNCHANGED <<now, queue, executions, extRunning, errorEvents, inv>>

NextReview == ProcessReview

SpecReview == InitReview /\ [][NextReview]_vars

SourcesDetailsIn(record) ==
    /\ "verificationDetails" \in DOMAIN record
    /\ "sourcesDetails" \in DOMAIN json_loads(record.verificationDetails).dict

Extracted == extract_json_from_message(proc.message)

\* C17 as stated: when the text of the agent holds no payload that parses,
\* _agent_message_to_dict gives result fail, confidence 0.5, an explanation
\* that is not empty and is the raw text, and the short explanation
\* 'parse failure'.
C17_ParseFailureRecord ==
    (proc.op = "process_review" /\ proc.pc # "called" /\ ~Extracted.parsed.ok) =>
        /\ ~proc.converted.raised
        /\ proc.converted.dict.result = Str(<< "fail" >>)
        /\ proc.converted.dict.confidence = << "0.5" >>
        /\ proc.converted.dict.explanation # Str(<< >>)
        /\ proc.converted.dict.explanation = Str(proc.message.text)
        /\ proc.converted.dict.shortExplanation = Str(<< "parse failure" >>)

\* C17, amended: when the text of the agent holds no payload that parses, or
\* one that Python takes for false, _agent_message_to_dict gives result fail,
\* confidence 0.5, as explanation the text without the whitespace around it,
\* which may be empty, and the short explanation 'Failed to analyze JSON
\* parse'; with citations it adds extractedText, the cited texts or the
\* sentence that there are none; the record has no other field.
C17_FallbackRecord ==
    (proc.op = "process_review" /\ proc.pc # "called" /\ ~Truthy(Extracted.parsed)) =>
        /\ ~proc.converted.raised
        /\ proc.converted.dict.result = Str(<< "fail" >>)
        /\ proc.converted.dict.confidence = << "0.5" >>
        /\ proc.converted.dict.explanation = Str(strip(proc.message.text))
        /\ proc.converted.dict.shortExplanation = Str(<< "Failed to analyze JSON parse" >>)
        /\ UseCitations =>
               proc.converted.dict.extractedText =
                   IF proc.message.citations = << >> THEN Str(<< NO_CITATIONS >>)
                   ELSE Str(proc.message.citations)
        /\ DOMAIN proc.converted.dict =
               {"result", "confidence", "explanation", "shortExplanation"}
                   \cup (IF UseCitations THEN {"extractedText"} ELSE {})

\* The agent answered with a record and prose with a closing brace after it:
\* neither the markers nor the braces gave a payload, and the whole answer is
\* the explanation of a failed review.
C17_Witness ==
    /\ proc.op = "process_review"
    /\ proc.pc = "returned"
    /\ proc.message.text = Serialize(Supplied) \o << " ", "w", "}" >>
    /\ ~Extracted.parsed.ok
    /\ proc.converted.dict.result = Str(<< "fail" >>)
    /\ proc.converted.dict.explanation = Str(proc.message.text)
    /\ proc.review.result.result = Str(<< "fail" >>)

----------------------------------------------------------------------------
(* The round trip of a result record through the text of an answer.        *)

\* The longest text of an explanation, in tokens.
MaxTextLen == 3

\* What a text of a record is made of: words, digits, blanks, braces and the
\* markers of the prompt.
TextTokens == {"w", "1", " ", "{", "}", JSON_START, JSON_END}

RECURSIVE TextsUpTo(_)
TextsUpTo(n) ==
    IF n = 0 THEN { << >> }
    ELSE TextsUpTo(n - 1)
             \cup { Append(t, c) : t \in { u \in TextsUpTo(n - 1) : Len(u) = n - 1 },
                                   c \in TextTokens }

\* The valid records of a review type: every field of the type, the verdict
\* pass or fail, and any text as explanation.
ValidRecords(has_images) ==
    { [k \in DOMAIN Defaults(has_images) |->
          IF k = "result" THEN Str(<< verdict >>)
          ELSE IF k = "explanation" THEN Str(text)
          ELSE Supplied[k]] :
        verdict \in {"pass", "fail"}, text \in TextsUpTo(MaxTextLen) }

NoRecord == [found |-> FALSE, dict |-> EmptyDict]

\* ensure_required_fields of what _extract_json_from_message gives for the
\* serialized record; a payload that is no dict is no record.
completed_record(parsed, has_images) ==
    IF ~parsed.ok \/ parsed.kind # "object"
           \/ ensure_required_fields(parsed.dict, has_images).raised THEN NoRecord
    ELSE [found |-> TRUE, dict |-> ensure_required_fields(parsed.dict, has_images).dict]

round_trip(r, has_images) ==
    completed_record(extract_json_from_message(Message(Serialize(r), << >>)).parsed,
                     has_images)

RoundTripCalls(has_images) ==
    { [op |-> "round_trip", pc |-> "called", has_images |-> has_images, r |-> r,
       back |-> NoRecord] : r \in ValidRecords(has_images) }

InitRoundTrip ==
    /\ HandlerAtRest
    /\ proc \in RoundTripCalls(TRUE) \cup RoundTripCalls(FALSE)

\* The record is serialized, extracted from the text and completed.
RoundTrip ==
    /\ proc.op = "round_trip"
    /\ proc.pc = "called"
    /\ proc' = [proc EXCEPT !.pc = "returned", !.back = round_trip(proc.r, proc.has_images)]
    /\ UNCHANGED <<now, queue, executions, extRunning, errorEvents, inv>>

NextRoundTrip == RoundTrip

SpecRoundTrip == InitRoundTrip /\ [][NextRoundTrip]_vars

\* C18 as stated: every valid PDF record and every valid IMAGE record comes
\* back equal from serialization, extraction and completion.
C18_RoundTrip ==
    (proc.op = "round_trip" /\ proc.pc = "returned") =>
        proc.back.found /\ proc.back.dict = proc.r

\* The span between the first start marker of a text and the nearest end
\* marker after it is JSON.
MarkedJson(text) ==
    LET m == marker_match(text)
    IN  m.found /\ json_loads(strip(m.group)).ok

\* C18, amended: every valid PDF record and every valid IMAGE record whose
\* serialized text holds no marked span that is JSON by itself comes back
\* equal from serialization, extraction and completion.
C18_RoundTripUnmarked ==
    (proc.op = "round_trip" /\ proc.pc = "returned" /\ ~MarkedJson(Serialize(proc.r))) =>
        proc.back.found /\ proc.back.dict = proc.r

\* A PDF record whose explanation holds both markers, in that order, and a
\* brace between them came back equal: the span is no JSON and the braces of
\* the whole text gave the record.
C18_Witness ==
    /\ proc.op = "round_trip"
    /\ proc.pc = "returned"
    /\ ~proc.has_images
    /\ proc.r.explanation = Str(<< JSON_START, "}", JSON_END >>)
    /\ proc.back.found
    /\ proc.back.dict = proc.r

----------------------------------------------------------------------------
(* The queue consumer: the reaper, the ceiling and the deferral *)

\* The jobs a body stands for: the entries of jobs of a multi-job body, the
\* one job of a single-job body.
ConstituentJobs(body) ==
    IF body.jobs # << >> THEN Len(body.jobs)
    ELSE IF body.reviewJobId # NoValue THEN 1
    ELSE 0

\* C21 as stated: when a stale message is reaped, the error handler is invoked
\* once for each job of its body: once for a single-job body, once for each
\* entry of jobs of a multi-job body.
C21_InvokePerJob ==
    \A w \in Workers :
        LET f == inv[w]
        IN  \A k \in 1..Len(f.turns) :
                (ReapCase(f, k) /\ Completed(f, k)) =>
                    Cardinality(Calls(CallsOf(f, k), "invoke")) =
                        ConstituentJobs(f.Records[k].body)

\* C30 as stated: a stale message is consumed whatever becomes of the error
\* handler: lambda_handler returns normally from its turn, also when the
\* invoke failed, the message is absent from batchItemFailures, and the loop
\* goes on to the messages after it.
C30_StaleConsumed ==
    \A w \in Workers :
        LET f == inv[w]
        IN  \A k \in 1..Len(f.turns) :
                ReapCase(f, k) =>
                    /\ Completed(f, k)
                    /\ ~Listed(f, k)
                    /\ (f.pc = "raised" => Len(f.turns) = Len(f.Records))

\* C24: when a message is evaluated with no slot left, the handler does two
\* things and no more: it sets the visibility timeout of the message to the
\* retry window and lists the message in batchItemFailures.  The body is not
\* decoded and the age is not checked (the turn cannot raise and calls neither
\* the engine nor the error handler, whatever the body and the age), and the
\* slots are left as they were.
C24_DeferralForSlots ==
    \A w \in Workers :
        LET f == inv[w]
        IN  \A k \in 1..Len(f.turns) :
                f.turns[k].slots <= 0 =>
                    /\ Completed(f, k)
                    /\ Listed(f, k)
                    /\ Len(CallsOf(f, k)) = 1
                    /\ IsVisibility(CallsOf(f, k)[1], f.Records[k], VISIBILITY_TIMEOUT_RETRY)
                    /\ SlotsAfter(f, k) = f.turns[k].slots

\* A stale message whose body is no object is deferred for lack of slots.
C24_Witness ==
    \E w \in Workers :
        \E k \in 1..Len(inv[w].turns) :
            /\ inv[w].turns[k].slots <= 0
            /\ Stale(inv[w], k)
            /\ inv[w].Records[k].body.shape # "object"
            /\ DeferredForSlots(inv[w], k)

\* The executions the controller started that are running.
RunningOfController == {e \in executions : e.status = "RUNNING"}

\* C23: when the invocations of the controller do not overlap, the controller
\* never takes the running executions above the ceiling: with an execution of
\* the controller running, Running is at most the ceiling.  When nothing but
\* the controller starts executions, Running therefore never exceeds the
\* ceiling.
C23_CeilingHoldsSequentially ==
    RunningOfController # {} => Running <= REVIEW_MAX_CONCURRENCY

\* The controller has filled the ceiling with its own launches, and a message
\* of a batch was deferred for lack of slots.
C23_Witness ==
    /\ Running = REVIEW_MAX_CONCURRENCY
    /\ Cardinality(RunningOfController) = REVIEW_MAX_CONCURRENCY
    /\ \E k \in 1..Len(inv[1].turns) : DeferredForSlots(inv[1], k)

\* The executions the invocation has started.
LaunchesOf(f) == {k \in Calls(f.calls, "start_execution") : f.calls[k].reply = "ok"}

\* C22: the ceiling is a soft limit when invocations overlap.  Every
\* invocation keeps within the slots of its own snapshot of the running count,
\* and nothing ties the snapshots of two invocations together: C22_Witness is
\* the interleaving in which two invocations observe the same running count,
\* together start more executions than the ceiling less that count, and
\* Running exceeds the ceiling.
C22_WithinOwnSnapshot ==
    \A w \in Workers :
        inv[w].pc # "idle" => Cardinality(LaunchesOf(inv[w])) <= SlotsOfBatch(inv[w])

C22_Witness ==
    /\ inv[1].pc # "idle" /\ inv[2].pc # "idle"
    /\ inv[1].query = "ok" /\ inv[2].query = "ok"
    /\ inv[1].running_count = inv[2].running_count
    /\ Cardinality(LaunchesOf(inv[1])) + Cardinality(LaunchesOf(inv[2]))
          > REVIEW_MAX_CONCURRENCY - inv[1].running_count
    /\ Running > REVIEW_MAX_CONCURRENCY

----------------------------------------------------------------------------
(* The slots of a batch for any ceiling.  REVIEW_MAX_CONCURRENCY is read    *)
(* from the environment of the function; the query and the slots below are *)
(* lines 132-139 and 48-49 of handler.py with the ceiling as a parameter.   *)

MaxCeiling == 7          \* the largest ceiling drawn
MaxRunningCount == 10    \* the most executions running at the engine

\* Mutant: the query asks for one execution less than the ceiling.
running_count_for_short(ceiling, running) == list_executions(running, ceiling - 1)

\* get_running_executions_count when the query answers: the executions listed
\* with maxResults = ceiling + 1.
running_count_for(ceiling, running) == list_executions(running, ceiling + 1)

\* available_slots = max(REVIEW_MAX_CONCURRENCY - running_count, 0).
available_slots_for(ceiling, running_count) == Max(ceiling - running_count, 0)

InitSlots ==
    /\ HandlerAtRest
    /\ proc \in { [op |-> "slots", pc |-> "called", ceiling |-> c, running |-> n,
                   running_count |-> 0, available_slots |-> 0] :
                    c \in 0..MaxCeiling, n \in 0..MaxRunningCount }

\* Lines 48-49 of lambda_handler, the query answering.
ComputeSlots ==
    /\ proc.op = "slots"
    /\ proc.pc = "called"
    /\ LET running_count == running_count_for(proc.ceiling, proc.running)
       IN  proc' = [proc EXCEPT !.pc = "returned",
                                !.running_count = running_count,
                                !.available_slots =
                                    available_slots_for(proc.ceiling, running_count)]
    /\ UNCHANGED <<now, queue, executions, extRunning, errorEvents, inv>>

NextSlots == ComputeSlots

SpecSlots == InitSlots /\ [][NextSlots]_vars

\* C28: bounding the query to ceiling + 1 results does not change the slots:
\* for a ceiling c >= 0 and n >= 0 executions running, the slots computed from
\* the bounded count min(n, c + 1) are max(c - n, 0), the slots of the true
\* count.
C28_BoundedCountSameSlots ==
    (proc.op = "slots" /\ proc.pc = "returned") =>
        proc.available_slots = Max(proc.ceiling - proc.running, 0)

\* More executions are running than the query lists, and no slot is computed.
C28_Witness ==
    /\ proc.op = "slots"
    /\ proc.pc = "returned"
    /\ proc.running > proc.ceiling + 1
    /\ proc.running_count = proc.ceiling + 1
    /\ proc.available_slots = 0

----------------------------------------------------------------------------
(* _extract_json_from_message on the text of an answer.                    *)

\* Answers in which markers and braces both occur: braces before or after a
\* marked payload, a marked span that is no JSON before braces or before
\* another marked span, and blanks around the text.
MixedTexts ==
    { << "{", "}", " ", JSON_START >> \o Str(<< "w" >>) \o << JSON_END >>,
      << JSON_START >> \o Str(<< "w" >>) \o << JSON_END, " ", "{", "}" >>,
      << JSON_START, "1", JSON_END, "{", "}" >>,
      << " ", JSON_START, "1", JSON_END, " ", "{", "}", " " >>,
      << "{", JSON_START, "null", JSON_END, "}" >>,
      << JSON_START, "w", JSON_END, " ", "{", "}" >>,
      << JSON_START, "w", JSON_END, JSON_START, "1", JSON_END >>,
      << JSON_START, "{", JSON_END, "}" >>,
      << JSON_END, "{", "}", JSON_START >>,
      << " ", "{", "}", " " >>,
      << " ", JSON_START, " ", "{", "}", " ", JSON_END, " ", "}", " " >> }

ExtractTexts == Texts \cup MixedTexts

InitExtract ==
    /\ HandlerAtRest
    /\ proc \in { [op |-> "extract", pc |-> "called", message |-> Message(text, << >>),
                   parsed |-> ParseError, combined |-> << >>] : text \in ExtractTexts }

\* _extract_json_from_message(message) returns its pair.
Extract ==
    /\ proc.op = "extract"
    /\ proc.pc = "called"
    /\ proc' = [proc EXCEPT !.pc = "returned",
                            !.parsed = extract_json_from_message(proc.message).parsed,
                            !.combined = extract_json_from_message(proc.message).combined]
    /\ UNCHANGED <<now, queue, executions, extRunning, errorEvents, inv>>

NextExtract == Extract

SpecExtract == InitExtract /\ [][NextExtract]_vars

\* The span between the markers of the stripped text of proc.message, and the
\* span of its braces, decoded.
MarkedPayload == loads_match(marker_match(strip(proc.message.text)))
BracedPayload == loads_match(brace_match(strip(proc.message.text)))

\* C25: _extract_json_from_message returns the decoded span between the
\* markers when the text has the markers and the span decodes, whatever braces
\* the text has elsewhere; otherwise the decoded span from the first opening
\* brace to the last closing brace when there is one and it decodes; otherwise
\* None.  The second component is the text, joined and stripped, in all three
\* cases.
C25_MarkersThenBraces ==
    (proc.op = "extract" /\ proc.pc = "returned") =>
        /\ proc.combined = strip(proc.message.text)
        /\ MarkedPayload.ok => proc.parsed = MarkedPayload
        /\ (~MarkedPayload.ok /\ BracedPayload.ok) => proc.parsed = BracedPayload
        /\ (~MarkedPayload.ok /\ ~BracedPayload.ok) => proc.parsed = ParseError

\* The marked payload is returned although the braces of the text hold
\* another payload.
C25_Witness ==
    /\ proc.op = "extract"
    /\ proc.pc = "returned"
    /\ MarkedPayload.ok
    /\ BracedPayload.ok
    /\ MarkedPayload # BracedPayload
    /\ proc.parsed = MarkedPayload
    /\ proc.combined # proc.message.text

----------------------------------------------------------------------------
(* _agent_message_to_dict and the capability predicates of agent.py        *)

\* C26 as stated: whenever the extraction yields a parsed object, one without
\* fields included, _agent_message_to_dict returns that object as the record
\* (with extractedText set over it in citation mode) and not the fallback
\* record.
C26_ParsedObjectIsBase ==
    (proc.op = "process_review" /\ proc.pc # "called"
        /\ Extracted.parsed.ok /\ Extracted.parsed.kind = "object") =>
        /\ ~proc.converted.raised
        /\ proc.converted.dict =
              IF UseCitations
                  THEN Put(Extracted.parsed.dict, "extractedText",
                           extract_citations_text(proc.message))
                  ELSE Extracted.parsed.dict

\* C27 as stated: in citation mode, when the extraction has yielded an object,
\* the extractedText of the record of process_review is the list the object
\* holds in its field citations; without that field it is the default of the
\* completion.
C27_SelfReportedCitations ==
    (proc.op = "process_review" /\ proc.pc = "returned" /\ UseCitations
        /\ Truthy(Extracted.parsed) /\ Extracted.parsed.kind = "object") =>
        proc.review.result.extractedText =
            IF "citations" \in DOMAIN Extracted.parsed.dict
                THEN Extracted.parsed.dict.citations
                ELSE PdfDefaults.extractedText

\* CACHE_SUPPORTED_BASE_MODELS, lines 161-178.
CACHE_SUPPORTED_BASE_MODELS ==
    { <<"anthropic", "claude-3-5-sonnet-20241022-v2:0">>,
      <<"anthropic", "claude-3-5-sonnet-20240620-v1:0">>,
      <<"anthropic", "claude-3-5-haiku-20241022-v1:0">>,
      <<"anthropic", "claude-3-opus-20240229-v1:0">>,
      <<"anthropic", "claude-3-sonnet-20240229-v1:0">>,
      <<"anthropic", "claude-3-haiku-20240307-v1:0">>,
      <<"anthropic", "claude-sonnet-4-20250514-v1:0">>,
      <<"anthropic", "claude-sonnet-4-5-20250929-v1:0">>,
      <<"anthropic", "claude-opus-4-20250514-v1:0">>,
      <<"anthropic", "claude-3-7-sonnet-20250219-v1:0">> }

\* The labels that match [a-z]+ among the labels of the ids of the model.
LowercaseLabels == PrefixLabels \cup {"apac", "jp", "anthropic", "amazon"}

\* supports_caching: the id itself, then the id without a first label of
\* lowercase letters (re.compile(r"^[a-z]+\.")).
supports_caching(model_id) ==
    IF model_id \in CACHE_SUPPORTED_BASE_MODELS THEN TRUE
    ELSE IF Len(model_id) >= 2 /\ Head(model_id) \in LowercaseLabels
        THEN Tail(model_id) \in CACHE_SUPPORTED_BASE_MODELS
    ELSE FALSE

InitCapabilities ==
    /\ HandlerAtRest
    /\ proc \in { [op |-> "capabilities", pc |-> "called", model_id |-> id,
                   citations |-> FALSE, caching |-> FALSE, config |-> DEFAULT_CONFIG] :
                    id \in ModelIds }

\* supports_citations(model_id), supports_caching(model_id) and
\* ModelConfig.create(model_id) return.
Capabilities ==
    /\ proc.op = "capabilities"
    /\ proc.pc = "called"
    /\ proc' = [proc EXCEPT !.pc = "returned",
                            !.citations = supports_citations(proc.model_id),
                            !.caching = supports_caching(proc.model_id),
                            !.config = create(proc.model_id)]
    /\ UNCHANGED <<now, queue, executions, extRunning, errorEvents, inv>>

NextCapabilities == Capabilities

SpecCapabilities == InitCapabilities /\ [][NextCapabilities]_vars

\* C29 as stated: for every id registered in the registry, supports_citations
\* of agent.py is the supports_citation of the record ModelConfig.create
\* gives, and supports_caching of agent.py is its supports_caching.
C29_CapabilitySourcesAgree ==
    (proc.op = "capabilities" /\ proc.pc = "returned" /\ Registered(proc.model_id)) =>
        /\ proc.citations = proc.config.supports_citation
        /\ proc.caching = proc.config.supports_caching

====
